---- MODULE Spec2Model ----
\* HMA trend-interval analysis of lzs590/ETH_HMA_Analysis:
\*   MathBrain.calculate_hma                      (src/src/analyzers/math_brain.py)
\*   TrendAnalyzer.run_complete_analysis and the functions it calls
\*                                 (src/src/eth_hma_analysis/core/trend_analyzer.py)
\*
\* Numbers.  Prices are small integers.  A float the code derives from them is
\* kept as an exact fraction [n |-> numerator, d |-> denominator] with d >= 0;
\* d = 0 is what numpy's float64 division by zero yields: +inf (n > 0),
\* -inf (n < 0) or nan (n = 0).  A column cell is <<x>> when defined and <<>>
\* when it is NaN.  HMA cells hold the numerator of the average over the fixed
\* denominator HmaDen(period), so slopes and their signs are exact.
EXTENDS Integers, Sequences, FiniteSets, TLC

\* ------------------------------------------------------------------ bounds
MaxLen == 4          \* longest series of bars of any shape
MaxFlatLen == 7      \* longest series of bars with high = low = close
MaxPrice == 2        \* largest price
MaxPeriod == 2       \* largest hma_period
MaxThreshold == 1    \* largest slope_threshold
MaxClock == 1        \* latest wall-clock reading
MaxWindow == 2       \* largest window_after passed to analyze_events besides the default
MaxSmoothPeriod == 4 \* largest hma_period of the runs of add_hma_to_dataframe alone
MaxEndTime == 3      \* latest end_time of a collected range
BatchSpan == 2       \* batch_size * interval_ms, the span of one request
MaxIntervals == 3    \* largest number of configured intervals

\* ------------------------------------------------------- program constants
WindowBefore == 5    \* analyze_events default window_before
WindowAfter == 5     \* analyze_events default window_after

\* ------------------------------------------------------------ column cells
NaN == <<>>
Def(x) == <<x>>
IsNaN(c) == c = <<>>
Val(c) == c[1]

Abs(x) == IF x < 0 THEN -x ELSE x
Sign(x) == IF x > 0 THEN 1 ELSE IF x < 0 THEN -1 ELSE 0
Max2(a, b) == IF a >= b THEN a ELSE b
Min2(a, b) == IF a <= b THEN a ELSE b

\* ---------------------------------------------------------------- MathBrain
\* sum of the weights 1..period, by which np.average divides
WmaDen(period) == (period * (period + 1)) \div 2

RECURSIVE WeightedSum(_, _, _, _)
\* sum over k = 1..period of k * data[i - period + k], the last k terms
WeightedSum(data, i, period, k) ==
  IF k = 0 THEN 0
  ELSE k * Val(data[i - period + k]) + WeightedSum(data, i, period, k - 1)

\* mutant: the rows before the first full window hold the price itself
calculate_wma_backfilled(data, period) ==
  [i \in 1..Len(data) |->
     IF i < period
     THEN (IF IsNaN(data[i]) THEN NaN ELSE Def(WmaDen(period) * Val(data[i])))
     ELSE IF \E k \in (i - period + 1)..i : IsNaN(data[k])
          THEN NaN
          ELSE Def(WeightedSum(data, i, period, period))]

\* rolling(window=period).apply(np.average(weights=1..period)): the cell is NaN
\* until period cells are available and whenever one cell of the window is NaN
calculate_wma(data, period) ==
  IF Len(data) < period
  THEN [i \in 1..Len(data) |-> NaN]
  ELSE [i \in 1..Len(data) |->
          IF i < period \/ (\E k \in (i - period + 1)..i : IsNaN(data[k]))
          THEN NaN
          ELSE Def(WeightedSum(data, i, period, period))]

half_period(period) == Max2(1, period \div 2)

\* int(np.sqrt(period)): the square root truncated towards zero
IntSqrt(period) == CHOOSE r \in 0..period : r * r <= period /\ (r + 1) * (r + 1) > period
\* mutant: the square root rounded to the nearest integer
sqrt_period_rounded(period) ==
  Max2(1, CHOOSE r \in 0..period :
            (2 * r - 1) * (2 * r - 1) <= 4 * period /\ 4 * period < (2 * r + 1) * (2 * r + 1))
sqrt_period(period) == Max2(1, IntSqrt(period))

\* 2 * wma1 - wma2 over the common denominator WmaDen(half) * WmaDen(period)
raw_hma(data, period) ==
  LET wma1 == calculate_wma(data, half_period(period))
      wma2 == calculate_wma(data, period)
  IN [i \in 1..Len(data) |->
        IF IsNaN(wma1[i]) \/ IsNaN(wma2[i]) THEN NaN
        ELSE Def(2 * Val(wma1[i]) * WmaDen(period)
                 - Val(wma2[i]) * WmaDen(half_period(period)))]

\* denominator of every defined cell of calculate_hma(data, period)
HmaDen(period) ==
  WmaDen(half_period(period)) * WmaDen(period) * WmaDen(sqrt_period(period))

\* mutant: an input shorter than the period gives an empty result
calculate_hma_short_empty(data, period) ==
  IF Len(data) < period
  THEN <<>>
  ELSE calculate_wma(raw_hma(data, period), sqrt_period(period))

calculate_hma(data, period) ==
  IF Len(data) < period
  THEN [i \in 1..Len(data) |-> NaN]
  ELSE calculate_wma(raw_hma(data, period), sqrt_period(period))

\* the close column as cells
CloseCells(b) == [i \in 1..Len(b) |-> Def(b[i].close)]

\* ------------------------------------------------- calculate_hma_slope (pure)
\* Series.diff(): NaN in the first row and next to a NaN
Diff(col) ==
  [i \in 1..Len(col) |->
     IF i = 1 \/ IsNaN(col[i]) \/ IsNaN(col[i - 1]) THEN NaN
     ELSE Def(Val(col[i]) - Val(col[i - 1]))]

\* np.sign keeps NaN
SignCol(col) == [i \in 1..Len(col) |-> IF IsNaN(col[i]) THEN NaN ELSE Def(Sign(Val(col[i])))]

\* slope_sign.diff().fillna(0)
SlopeChange(sgn) ==
  LET d == Diff(sgn)
  IN [i \in 1..Len(sgn) |-> IF IsNaN(d[i]) THEN 0 ELSE Val(d[i])]

\* mutant: every change of the slope sign marks a turning point
RawTurningPoint_any_change(chg) ==
  [i \in 1..Len(chg) |-> IF chg[i] > 0 THEN 1 ELSE IF chg[i] < 0 THEN -1 ELSE 0]

\* turning points before the noise filter
RawTurningPoint(chg) ==
  [i \in 1..Len(chg) |-> IF chg[i] = 2 THEN 1 ELSE IF chg[i] = -2 THEN -1 ELSE 0]

\* slope_magnitude >= slope_threshold; a NaN slope compares false
ValidTurn(tp, slope, i, threshold, den) ==
  tp[i] # 0 /\ ~IsNaN(slope[i]) /\ Abs(Val(slope[i])) >= threshold * den

\* mutant: the filter keeps every turning point
FilterTurningPoint_off(tp, slope, threshold, den) == tp

FilterTurningPoint(tp, slope, threshold, den) ==
  IF threshold > 0
  THEN [i \in 1..Len(tp) |-> IF ValidTurn(tp, slope, i, threshold, den) THEN tp[i] ELSE 0]
  ELSE tp

\* positions of the rows with turning_point != 0, in index order
RECURSIVE TurningIdx(_, _)
TurningIdx(tp, i) ==
  IF i > Len(tp) THEN <<>>
  ELSE IF tp[i] # 0 THEN <<i>> \o TurningIdx(tp, i + 1)
  ELSE TurningIdx(tp, i + 1)

\* ---------------------------------------------------- float64 as fractions
Frac(n, d) == [n |-> n, d |-> d]
Zero == Frac(0, 1)
Inf == Frac(1, 0)             \* float('inf')
NanF == Frac(0, 0)            \* nan
IsNanF(x) == x.d = 0 /\ x.n = 0
IsInfF(x) == x.d = 0 /\ x.n # 0
IsPosInf(x) == x.d = 0 /\ x.n > 0
Finite(x) == x.d > 0
\* x > 0, x >= 0 and x < 0; every comparison with nan is false
Positive(x) == x.n > 0
NonNegative(x) == x.n > 0 \/ (x.n = 0 /\ x.d > 0)
Negative(x) == x.n < 0
\* x == y as floats: equal values; nan equals nothing
FEq(x, y) ==
  /\ ~IsNanF(x) /\ ~IsNanF(y)
  /\ IF x.d = 0 \/ y.d = 0 THEN x.d = 0 /\ y.d = 0 /\ Sign(x.n) = Sign(y.n)
     ELSE x.n * y.d = y.n * x.d
\* x <= y
FLe(x, y) ==
  /\ ~IsNanF(x) /\ ~IsNanF(y)
  /\ IF x.d = 0 /\ y.d = 0 THEN Sign(x.n) <= Sign(y.n)
     ELSE x.n * y.d <= y.n * x.d
\* x + y: inf absorbs, inf + (-inf) is nan
FAdd(x, y) ==
  IF IsNanF(x) \/ IsNanF(y) THEN NanF
  ELSE IF x.d = 0 /\ y.d = 0 THEN (IF Sign(x.n) = Sign(y.n) THEN Frac(Sign(x.n), 0) ELSE NanF)
  ELSE IF x.d = 0 THEN Frac(Sign(x.n), 0)
  ELSE IF y.d = 0 THEN Frac(Sign(y.n), 0)
  ELSE Frac(x.n * y.d + y.n * x.d, x.d * y.d)
\* x / y on float64: x / 0 is +-inf or nan, finite / inf is 0
FDiv(x, y) ==
  IF IsNanF(x) \/ IsNanF(y) THEN NanF
  ELSE IF y.d = 0 THEN (IF x.d = 0 THEN NanF ELSE Zero)
  ELSE IF y.n = 0 THEN Frac(Sign(x.n), 0)
  ELSE IF x.d = 0 THEN Frac(Sign(x.n) * Sign(y.n), 0)
  ELSE Frac(x.n * y.d * Sign(y.n), x.d * Abs(y.n))
FAbs(x) == Frac(Abs(x.n), x.d)

RECURSIVE FSum(_)
FSum(s) == IF s = <<>> THEN Zero ELSE FAdd(Head(s), FSum(Tail(s)))
\* np.mean: nan for an empty list
FMean(s) == IF s = <<>> THEN NanF ELSE FDiv(FSum(s), Frac(Len(s), 1))
\* np.max / np.min of a non-empty list: nan if it holds a nan
FMax(s) ==
  IF \E i \in 1..Len(s) : IsNanF(s[i]) THEN NanF
  ELSE s[CHOOSE i \in 1..Len(s) : \A j \in 1..Len(s) : FLe(s[j], s[i])]
FMin(s) ==
  IF \E i \in 1..Len(s) : IsNanF(s[i]) THEN NanF
  ELSE s[CHOOSE i \in 1..Len(s) : \A j \in 1..Len(s) : FLe(s[i], s[j])]

\* a / b - 1 for prices a, b >= 0
Rel(a, b) == IF b = 0 THEN Frac(Sign(a), 0) ELSE Frac(a - b, b)
\* (a / b - 1) * 100
Pct(a, b) == IF b = 0 THEN Frac(Sign(a), 0) ELSE Frac(100 * (a - b), b)

RECURSIVE MaxOver(_, _, _)
\* interval_data['high'].max() over rows lo..hi
MaxOver(col, lo, hi) ==
  IF lo = hi THEN col[lo] ELSE Max2(col[hi], MaxOver(col, lo, hi - 1))
RECURSIVE MinOver(_, _, _)
\* interval_data['low'].min() over rows lo..hi
MinOver(col, lo, hi) ==
  IF lo = hi THEN col[lo] ELSE Min2(col[hi], MinOver(col, lo, hi - 1))

HighCol(b) == [i \in 1..Len(b) |-> b[i].high]
LowCol(b) == [i \in 1..Len(b) |-> b[i].low]

\* ------------------------------------------------------------ analyze_events
\* mutant: the loop runs over range(0, window_after) and starts at the event bar
price_changes_from_event(b, p, w) ==
  LET n == Min2(w, Len(b) - p + 1)
  IN [i \in 1..n |-> Pct(b[p + i - 1].close, b[p].close)]

\* price_changes of the turning point in row p (numeric_idx = p - 1)
price_changes(b, p, w) ==
  LET n == Min2(w, Len(b) - p)
  IN [i \in 1..n |-> Pct(b[p + i].close, b[p].close)]

\* mutant: the rising changes are counted whatever the event type
consistency_up_only(event_type, changes) ==
  IF changes = <<>> THEN Zero
  ELSE Frac(Len(SelectSeq(changes, Positive)), Len(changes))

consistency(event_type, changes) ==
  IF changes = <<>> THEN Zero
  ELSE IF event_type = "up_turn"
       THEN Frac(Len(SelectSeq(changes, Positive)), Len(changes))
       ELSE Frac(Len(SelectSeq(changes, Negative)), Len(changes))

\* returns.std() of the window rows: nan when the window has fewer than two
\* returns; the value itself (an irrational multiple of a deviation) is not kept
volatility(b, p, window_before, w) ==
  LET start_idx == Max2(0, (p - 1) - window_before)
      end_idx == Min2(Len(b), (p - 1) + w + 1)
      returns == (end_idx - start_idx) - 1
  IN IF returns < 2 THEN "nan" ELSE "std"

EventAnalysis(b, tp, p, window_before, w) ==
  LET event_type == IF tp[p] = 1 THEN "up_turn" ELSE "down_turn"
      changes == price_changes(b, p, w)
  IN [event_type |-> event_type,
      event_time |-> p - 1,
      price_at_event |-> b[p].close,
      price_changes |-> changes,
      volatility |-> volatility(b, p, window_before, w),
      consistency |-> consistency(event_type, changes)]

\* mutant: one event per pair of adjacent turning points
analyze_events_paired(b, tp, window_before, w) ==
  LET pts == TurningIdx(tp, 1)
  IN [k \in 1..(Len(pts) - 1) |-> EventAnalysis(b, tp, pts[k], window_before, w)]

analyze_events(b, tp, window_before, w) ==
  LET pts == TurningIdx(tp, 1)
  IN [k \in 1..Len(pts) |-> EventAnalysis(b, tp, pts[k], window_before, w)]

\* --------------------------------------------------- analyze_trend_intervals
\* hours between two bars: the index holds one bar per 4h (config INTERVALS)
BarHours == 4

pfe_pct(direction, start_price, high_price, low_price) ==
  IF direction = "up" THEN Pct(high_price, start_price) ELSE Pct(start_price, low_price)
mae_pct(direction, start_price, high_price, low_price) ==
  IF direction = "up" THEN Pct(start_price, low_price) ELSE Pct(high_price, start_price)

\* mutant: the direction is read from the turning point the interval ends at
TrendInterval_end_direction(b, tp, s, e) ==
  LET trend_direction == IF tp[e] = 1 THEN "up" ELSE "down"
      start_price == b[s].close
      end_price == b[e].close
      high_price == MaxOver(HighCol(b), s, e)
      low_price == MinOver(LowCol(b), s, e)
  IN [start_idx |-> s - 1,
      end_idx |-> e - 1,
      trend_direction |-> trend_direction,
      start_price |-> start_price,
      end_price |-> end_price,
      high_price |-> high_price,
      low_price |-> low_price,
      duration |-> (e - 1) - (s - 1),
      duration_hours |-> (e - s) * BarHours,
      price_change |-> end_price - start_price,
      price_change_pct |-> Pct(end_price, start_price),
      pfe_pct |-> pfe_pct(trend_direction, start_price, high_price, low_price),
      mae_pct |-> mae_pct(trend_direction, start_price, high_price, low_price)]

\* mutant: the high and the low are taken over df.iloc[start_idx:end_idx]
TrendInterval_half_open(b, tp, s, e) ==
  LET trend_direction == IF tp[s] = 1 THEN "up" ELSE "down"
      start_price == b[s].close
      end_price == b[e].close
      high_price == MaxOver(HighCol(b), s, e - 1)
      low_price == MinOver(LowCol(b), s, e - 1)
  IN [start_idx |-> s - 1,
      end_idx |-> e - 1,
      trend_direction |-> trend_direction,
      start_price |-> start_price,
      end_price |-> end_price,
      high_price |-> high_price,
      low_price |-> low_price,
      duration |-> (e - 1) - (s - 1),
      duration_hours |-> (e - s) * BarHours,
      price_change |-> end_price - start_price,
      price_change_pct |-> Pct(end_price, start_price),
      pfe_pct |-> pfe_pct(trend_direction, start_price, high_price, low_price),
      mae_pct |-> mae_pct(trend_direction, start_price, high_price, low_price)]

\* the interval from the turning point in row s to the one in row e
TrendInterval(b, tp, s, e) ==
  LET trend_direction == IF tp[s] = 1 THEN "up" ELSE "down"
      start_price == b[s].close
      end_price == b[e].close
      high_price == MaxOver(HighCol(b), s, e)
      low_price == MinOver(LowCol(b), s, e)
  IN [start_idx |-> s - 1,
      end_idx |-> e - 1,
      trend_direction |-> trend_direction,
      start_price |-> start_price,
      end_price |-> end_price,
      high_price |-> high_price,
      low_price |-> low_price,
      duration |-> (e - 1) - (s - 1),
      duration_hours |-> (e - s) * BarHours,
      price_change |-> end_price - start_price,
      price_change_pct |-> Pct(end_price, start_price),
      pfe_pct |-> pfe_pct(trend_direction, start_price, high_price, low_price),
      mae_pct |-> mae_pct(trend_direction, start_price, high_price, low_price)]

\* mutant: the early return is taken only when there is no turning point
InsufficientTurningPoints_none(tp) == Len(TurningIdx(tp, 1)) < 1

\* len(turning_points) < 2: the early return with the logged warning
InsufficientTurningPoints(tp) == Len(TurningIdx(tp, 1)) < 2

\* mutant: every interval starts at the first turning point
analyze_trend_intervals_from_first(b, tp) ==
  LET pts == TurningIdx(tp, 1)
  IN IF InsufficientTurningPoints(tp) THEN <<>>
     ELSE [k \in 1..(Len(pts) - 1) |-> TrendInterval(b, tp, pts[1], pts[k + 1])]

analyze_trend_intervals(b, tp) ==
  LET pts == TurningIdx(tp, 1)
  IN IF InsufficientTurningPoints(tp) THEN <<>>
     ELSE [k \in 1..(Len(pts) - 1) |-> TrendInterval(b, tp, pts[k], pts[k + 1])]

\* ------------------------------ analyze_uptrend_metrics / analyze_downtrend_metrics
\* mutant: the division is made whatever the risk
long_risk_reward_ratio_unguarded(start_price, high_price, low_price) ==
  FDiv(Rel(high_price, start_price), Rel(start_price, low_price))

\* (high / start - 1) / (start / low - 1) if (start / low - 1) > 0 else inf
long_risk_reward_ratio(start_price, high_price, low_price) ==
  IF Positive(Rel(start_price, low_price))
  THEN FDiv(Rel(high_price, start_price), Rel(start_price, low_price))
  ELSE Inf

\* (start / low - 1) / (high / start - 1) if (high / start - 1) > 0 else inf
short_risk_reward_ratio(start_price, high_price, low_price) ==
  IF Positive(Rel(high_price, start_price))
  THEN FDiv(Rel(start_price, low_price), Rel(high_price, start_price))
  ELSE Inf

\* mutant: an up interval measured with the short-side formulas
uptrend_metrics_short(b, s, e) ==
  LET start_price == b[s].close
      end_price == b[e].close
      high_price == MaxOver(HighCol(b), s, e)
      low_price == MinOver(LowCol(b), s, e)
  IN [start_time |-> s - 1,
      end_time |-> e - 1,
      start_price |-> start_price,
      end_price |-> end_price,
      high_price |-> high_price,
      low_price |-> low_price,
      long_ideal_profit |-> Pct(start_price, low_price),
      long_actual_profit |-> Pct(end_price, start_price),
      long_risk_loss |-> Pct(high_price, start_price),
      max_rally |-> Pct(high_price, start_price),
      max_decline |-> Pct(start_price, low_price),
      risk_reward_ratio |-> long_risk_reward_ratio(start_price, high_price, low_price),
      duration |-> (e - 1) - (s - 1),
      duration_hours |-> (e - s) * BarHours]

uptrend_metrics(b, s, e) ==
  LET start_price == b[s].close
      end_price == b[e].close
      high_price == MaxOver(HighCol(b), s, e)
      low_price == MinOver(LowCol(b), s, e)
  IN [start_time |-> s - 1,
      end_time |-> e - 1,
      start_price |-> start_price,
      end_price |-> end_price,
      high_price |-> high_price,
      low_price |-> low_price,
      long_ideal_profit |-> Pct(high_price, start_price),
      long_actual_profit |-> Pct(end_price, start_price),
      long_risk_loss |-> Pct(start_price, low_price),
      max_rally |-> Pct(high_price, start_price),
      max_decline |-> Pct(start_price, low_price),
      risk_reward_ratio |-> long_risk_reward_ratio(start_price, high_price, low_price),
      duration |-> (e - 1) - (s - 1),
      duration_hours |-> (e - s) * BarHours]

\* mutant: a down interval measured with the long-side formulas
downtrend_metrics_long(b, s, e) ==
  LET start_price == b[s].close
      end_price == b[e].close
      high_price == MaxOver(HighCol(b), s, e)
      low_price == MinOver(LowCol(b), s, e)
  IN [start_time |-> s - 1,
      end_time |-> e - 1,
      start_price |-> start_price,
      end_price |-> end_price,
      high_price |-> high_price,
      low_price |-> low_price,
      short_ideal_profit |-> Pct(high_price, start_price),
      short_actual_profit |-> Pct(end_price, start_price),
      short_risk_loss |-> Pct(start_price, low_price),
      max_decline |-> Pct(start_price, low_price),
      max_rally |-> Pct(high_price, start_price),
      risk_reward_ratio |-> short_risk_reward_ratio(start_price, high_price, low_price),
      duration |-> (e - 1) - (s - 1),
      duration_hours |-> (e - s) * BarHours]

downtrend_metrics(b, s, e) ==
  LET start_price == b[s].close
      end_price == b[e].close
      high_price == MaxOver(HighCol(b), s, e)
      low_price == MinOver(LowCol(b), s, e)
  IN [start_time |-> s - 1,
      end_time |-> e - 1,
      start_price |-> start_price,
      end_price |-> end_price,
      high_price |-> high_price,
      low_price |-> low_price,
      short_ideal_profit |-> Pct(start_price, low_price),
      short_actual_profit |-> Pct(start_price, end_price),
      short_risk_loss |-> Pct(high_price, start_price),
      max_decline |-> Pct(start_price, low_price),
      max_rally |-> Pct(high_price, start_price),
      risk_reward_ratio |-> short_risk_reward_ratio(start_price, high_price, low_price),
      duration |-> (e - 1) - (s - 1),
      duration_hours |-> (e - s) * BarHours]

RECURSIVE TrendMetrics(_, _, _, _, _)
\* the loop over adjacent turning points, keeping the pairs that start with dir
TrendMetrics(b, tp, pts, k, dir) ==
  IF k >= Len(pts) THEN <<>>
  ELSE IF tp[pts[k]] = dir
       THEN <<IF dir = 1 THEN uptrend_metrics(b, pts[k], pts[k + 1])
                         ELSE downtrend_metrics(b, pts[k], pts[k + 1])>>
            \o TrendMetrics(b, tp, pts, k + 1, dir)
       ELSE TrendMetrics(b, tp, pts, k + 1, dir)

Field(s, f) == [i \in 1..Len(s) |-> s[i][f]]

\* interval['risk_reward_ratio'] != float('inf')
NotInf(x) == ~IsPosInf(x)
\* mutant: the infinite ratios are kept in the list that is averaged
risk_reward_ratios_unfiltered(metrics) == Field(metrics, "risk_reward_ratio")
risk_reward_ratios(metrics) == SelectSeq(Field(metrics, "risk_reward_ratio"), NotInf)

\* np.mean(risk_reward_ratios) if risk_reward_ratios else 0
avg_risk_reward_ratio(metrics) ==
  IF risk_reward_ratios(metrics) # <<>> THEN FMean(risk_reward_ratios(metrics)) ELSE Zero

analyze_uptrend_metrics(b, tp) ==
  LET uptrend_intervals == TrendMetrics(b, tp, TurningIdx(tp, 1), 1, 1)
  IN IF uptrend_intervals # <<>>
     THEN [total_uptrends |-> Len(uptrend_intervals),
           avg_long_ideal_profit |-> FMean(Field(uptrend_intervals, "long_ideal_profit")),
           max_long_ideal_profit |-> FMax(Field(uptrend_intervals, "long_ideal_profit")),
           avg_long_actual_profit |-> FMean(Field(uptrend_intervals, "long_actual_profit")),
           max_long_actual_profit |-> FMax(Field(uptrend_intervals, "long_actual_profit")),
           avg_long_risk_loss |-> FMean(Field(uptrend_intervals, "long_risk_loss")),
           max_long_risk_loss |-> FMax(Field(uptrend_intervals, "long_risk_loss")),
           avg_risk_reward_ratio |-> avg_risk_reward_ratio(uptrend_intervals),
           intervals |-> uptrend_intervals]
     ELSE [total_uptrends |-> 0, intervals |-> <<>>]

analyze_downtrend_metrics(b, tp) ==
  LET downtrend_intervals == TrendMetrics(b, tp, TurningIdx(tp, 1), 1, -1)
  IN IF downtrend_intervals # <<>>
     THEN [total_downtrends |-> Len(downtrend_intervals),
           avg_short_ideal_profit |-> FMean(Field(downtrend_intervals, "short_ideal_profit")),
           max_short_ideal_profit |-> FMax(Field(downtrend_intervals, "short_ideal_profit")),
           avg_short_actual_profit |-> FMean(Field(downtrend_intervals, "short_actual_profit")),
           max_short_actual_profit |-> FMax(Field(downtrend_intervals, "short_actual_profit")),
           avg_short_risk_loss |-> FMean(Field(downtrend_intervals, "short_risk_loss")),
           max_short_risk_loss |-> FMax(Field(downtrend_intervals, "short_risk_loss")),
           avg_risk_reward_ratio |-> avg_risk_reward_ratio(downtrend_intervals),
           intervals |-> downtrend_intervals]
     ELSE [total_downtrends |-> 0, intervals |-> <<>>]

\* ------------------------------------------------------ generate_trend_report
IsUp(i) == i.trend_direction = "up"
IsDown(i) == i.trend_direction = "down"
IsUpTurn(e) == e.event_type = "up_turn"
IsDownTurn(e) == e.event_type = "down_turn"
Gained(i) == Positive(i.price_change_pct)
Lost(i) == Negative(i.price_change_pct)
HasChange1(e) == Len(e.price_changes) > 0
HasChange5(e) == Len(e.price_changes) > 4

Durations(group) == [k \in 1..Len(group) |-> Frac(group[k].duration, 1)]

\* the statistics of one direction group; won counts its winning intervals
trend_stats(group, won) ==
  IF group # <<>>
  THEN [count |-> Len(group),
        avg_duration |-> FMean(Durations(group)),
        avg_price_change_pct |-> FMean(Field(group, "price_change_pct")),
        max_price_change_pct |-> FMax(Field(group, "price_change_pct")),
        min_price_change_pct |-> FMin(Field(group, "price_change_pct")),
        avg_pfe_pct |-> FMean(Field(group, "pfe_pct")),
        max_pfe_pct |-> FMax(Field(group, "pfe_pct")),
        avg_mae_pct |-> FMean(Field(group, "mae_pct")),
        max_mae_pct |-> FMax(Field(group, "mae_pct")),
        win_rate |-> Frac(won, Len(group))]
  ELSE [count |-> 0, avg_duration |-> Zero, avg_price_change_pct |-> Zero,
        max_price_change_pct |-> Zero, min_price_change_pct |-> Zero,
        avg_pfe_pct |-> Zero, max_pfe_pct |-> Zero, avg_mae_pct |-> Zero,
        max_mae_pct |-> Zero, win_rate |-> Zero]

\* np.mean of the volatilities: nan as soon as one of them is nan
avg_volatility(group) ==
  IF group = <<>> THEN "0"
  ELSE IF \E k \in 1..Len(group) : group[k].volatility = "nan" THEN "nan" ELSE "std"

ChangeAt(group, j) == [k \in 1..Len(group) |-> group[k].price_changes[j]]

event_stats(group) ==
  [count |-> Len(group),
   avg_volatility |-> avg_volatility(group),
   avg_consistency |-> IF group # <<>> THEN FMean(Field(group, "consistency")) ELSE Zero,
   avg_price_change_1h |->
     IF group # <<>> THEN FMean(ChangeAt(SelectSeq(group, HasChange1), 1)) ELSE Zero,
   avg_price_change_5h |->
     IF group # <<>> THEN FMean(ChangeAt(SelectSeq(group, HasChange5), 5)) ELSE Zero]

\* avg_up_profit / avg_down_loss if avg_down_loss > 0 else inf
profit_loss_ratio(up_intervals, down_intervals) ==
  LET avg_up_profit == FMean(Field(SelectSeq(up_intervals, Gained), "price_change_pct"))
      avg_down_loss == FAbs(FMean(Field(SelectSeq(down_intervals, Lost), "price_change_pct")))
  IN IF Positive(avg_down_loss) THEN FDiv(avg_up_profit, avg_down_loss) ELSE Inf

interval_analysis(up_intervals, down_intervals) ==
  LET groups == [up_trends |-> trend_stats(up_intervals, Len(SelectSeq(up_intervals, Gained))),
                 down_trends |-> trend_stats(down_intervals, Len(SelectSeq(down_intervals, Lost)))]
  IN IF up_intervals # <<>> /\ down_intervals # <<>>
     THEN groups @@ [profit_loss_ratio |-> profit_loss_ratio(up_intervals, down_intervals)]
     ELSE groups

generate_trend_report(ivs, evs) ==
  IF ivs = <<>>
  THEN [error |-> "no interval data"]
  ELSE LET up_intervals == SelectSeq(ivs, IsUp)
           down_intervals == SelectSeq(ivs, IsDown)
           up_events == SelectSeq(evs, IsUpTurn)
           down_events == SelectSeq(evs, IsDownTurn)
       IN [summary |-> [total_intervals |-> Len(ivs),
                        up_intervals |-> Len(up_intervals),
                        down_intervals |-> Len(down_intervals),
                        total_events |-> Len(evs),
                        up_events |-> Len(up_events),
                        down_events |-> Len(down_events)],
           interval_analysis |-> interval_analysis(up_intervals, down_intervals),
           event_analysis |-> [up_turns |-> event_stats(up_events),
                               down_turns |-> event_stats(down_events)]]

\* pd.Timestamp.now().isoformat() at wall-clock reading t
analysis_timestamp(t) == t

\* {**base_report, uptrend_analysis, downtrend_analysis, analysis_metadata}
complete_report(base_report, up, down, period, threshold, n, t) ==
  base_report @@ [uptrend_analysis |-> up,
                  downtrend_analysis |-> down,
                  analysis_metadata |-> [hma_period |-> period,
                                         slope_threshold |-> threshold,
                                         total_data_points |-> n,
                                         analysis_timestamp |-> analysis_timestamp(t)]]

\* ------------------------------------------------------------------- inputs
\* MathBrain.validate_data on the high, low and close columns
validate_data(b) ==
  /\ b # <<>>
  /\ ~(\E i \in 1..Len(b) : b[i].high < b[i].low)
  /\ ~(\E i \in 1..Len(b) : b[i].close <= 0)

\* a bar's high and low as offsets from its close: a flat bar, a candle around
\* the close, a dip below it, a close above the high and a close below the low
Shapes == {<<0, 0>>, <<1, -1>>, <<0, -1>>, <<-1, -1>>, <<1, 1>>}
Bar(c, sh) == [high |-> c + sh[1], low |-> c + sh[2], close |-> c]
\* the series with closes cs whose bars all have shape sh
WithShape(cs, sh) == [i \in 1..Len(cs) |-> Bar(cs[i], sh)]

SeqsUpTo(S, n) == UNION {[1..k -> S] : k \in 0..n}
Series ==
  {WithShape(cs, <<0, 0>>) : cs \in SeqsUpTo(1..MaxPrice, MaxFlatLen)}
    \cup {WithShape(cs, sh) : cs \in SeqsUpTo(1..MaxPrice, MaxLen), sh \in Shapes}

\* -------------------------------------------------------------------- state
VARIABLES
  bars,               \* the high, low and close columns of the DataFrame
  hma_period,         \* MathBrain.hma_period = TrendAnalyzer.hma_period
  slope_threshold,    \* TrendAnalyzer.slope_threshold
  pc,                 \* "raw", "processed", "analysed", "reanalysed"
  HMA,                \* column HMA_<period>, cells over HmaDen(hma_period)
  HMA_slope,          \* column HMA_slope, same denominator
  slope_sign,         \* column slope_sign
  turning_point,      \* column turning_point
  events,             \* result of analyze_events
  intervals,          \* result of analyze_trend_intervals
  warnings,           \* the warnings logged so far
  uptrend_analysis,   \* result of analyze_uptrend_metrics
  downtrend_analysis, \* result of analyze_downtrend_metrics
  base_report,        \* result of generate_trend_report
  report,             \* result of the latest run_complete_analysis
  prev_report,        \* result of the run before it
  now,                \* wall clock
  open_time,          \* the open_time index of the DataFrame
  files_created,      \* process_single_interval's result['files_created']
  result,             \* process_single_interval's result: success and error
  window_after,       \* the window_after argument of analyze_events
  exception,          \* the exception print_summary ended with, or "none"
  INTERVALS,          \* config INTERVALS, the intervals run_full_analysis processes
  analysis_result,    \* run_full_analysis's analysis_result
  url,                \* get_klines_data: position in urls
  attempt,            \* get_klines_data: the attempt of the inner loop
  requests,           \* get_klines_data: the requests issued so far
  data,               \* get_klines_data: the list returned
  current_start,      \* collect_historical_data: start of the next request
  end_time,           \* collect_historical_data: end of the collected range
  all_data,           \* collect_historical_data: the bars gathered so far
  batches,            \* collect_historical_data: the requests made and their answers
  df                  \* collect_historical_data: the frame returned

vars == <<bars, hma_period, slope_threshold, pc, HMA, HMA_slope, slope_sign,
          turning_point, events, intervals, warnings, uptrend_analysis,
          downtrend_analysis, base_report, report, prev_report, now,
          open_time, files_created, result, window_after, exception,
          INTERVALS, analysis_result, url, attempt, requests, data,
          current_start, end_time, all_data, batches, df>>

\* the variables of ingestion and of the driver around the analysis
ingest_vars == <<open_time, files_created, result>>
driver_vars == <<window_after, exception>>
\* the variables of run_full_analysis and of the collector
manager_vars == <<INTERVALS, analysis_result>>
klines_vars == <<url, attempt, requests, data>>
paging_vars == <<current_start, end_time, all_data, batches, df>>

NoReport == [none |-> TRUE]

\* the index of a frame of n bars with one stamp per bar
RegularIndex(n) == [i \in 1..n |-> i]

\* the state of every variable but the frame, its index and the configuration
Fresh ==
  /\ files_created = <<>>
  /\ result = NoReport
  /\ window_after = WindowAfter
  /\ exception = "none"
  /\ HMA = <<>>
  /\ HMA_slope = <<>>
  /\ slope_sign = <<>>
  /\ turning_point = <<>>
  /\ events = <<>>
  /\ intervals = <<>>
  /\ warnings = {}
  /\ uptrend_analysis = NoReport
  /\ downtrend_analysis = NoReport
  /\ base_report = NoReport
  /\ report = NoReport
  /\ prev_report = NoReport
  /\ now = 0

\* run_full_analysis has not started
ManagerIdle ==
  /\ INTERVALS = <<>>
  /\ analysis_result = NoReport

\* no request is in progress in the collector
CollectorIdle ==
  /\ url = 1
  /\ attempt = 0
  /\ requests = <<>>
  /\ data = <<>>
  /\ current_start = 0
  /\ end_time = 0
  /\ all_data = <<>>
  /\ batches = <<>>
  /\ df = <<>>

\* the 10-bar walk-through series, smoothing period 3, no threshold
Scenario == [prices |-> <<100, 101, 103, 106, 105, 103, 100, 98, 99, 101>>,
             hma_period |-> 3,
             slope_threshold |-> 0]
ScenarioBars == WithShape(Scenario.prices, <<0, 0>>)

Init ==
  /\ \/ /\ bars \in {b \in Series : validate_data(b)}
        /\ hma_period \in 1..MaxPeriod
        /\ slope_threshold \in 0..MaxThreshold
     \/ /\ bars = ScenarioBars
        /\ hma_period = Scenario.hma_period
        /\ slope_threshold = Scenario.slope_threshold
  /\ pc = "raw"
  /\ open_time = RegularIndex(Len(bars))
  /\ Fresh
  /\ ManagerIdle
  /\ CollectorIdle

\* ------------------------------------------------------------------ actions
\* MathBrain.add_hma_to_dataframe: the HMA column of the close prices
AddHmaToDataframe ==
  /\ pc = "raw"
  /\ HMA' = calculate_hma(CloseCells(bars), hma_period)
  /\ warnings' = IF Len(bars) < hma_period
                 THEN warnings \cup {"data_shorter_than_period"} ELSE warnings
  /\ pc' = "processed"
  /\ UNCHANGED <<bars, hma_period, slope_threshold, HMA_slope, slope_sign,
                 turning_point, events, intervals, uptrend_analysis,
                 downtrend_analysis, base_report, report, prev_report, now,
                 ingest_vars, driver_vars,
                 manager_vars, klines_vars, paging_vars>>

\* the turning_point column calculate_hma_slope leaves in the DataFrame
calculate_hma_slope(hma, threshold, den) ==
  FilterTurningPoint(RawTurningPoint(SlopeChange(SignCol(Diff(hma)))), Diff(hma), threshold, den)

\* TrendAnalyzer.run_complete_analysis on a copy of the processed DataFrame;
\* t is the wall-clock reading when the report is assembled
run_complete_analysis ==
  /\ HMA_slope' = Diff(HMA)
  /\ slope_sign' = SignCol(Diff(HMA))
  /\ turning_point' = calculate_hma_slope(HMA, slope_threshold, HmaDen(hma_period))
  /\ events' = analyze_events(bars, turning_point', WindowBefore, WindowAfter)
  /\ intervals' = analyze_trend_intervals(bars, turning_point')
  /\ warnings' = IF InsufficientTurningPoints(turning_point')
                 THEN warnings \cup {"insufficient_turning_points"} ELSE warnings
  /\ uptrend_analysis' = analyze_uptrend_metrics(bars, turning_point')
  /\ downtrend_analysis' = analyze_downtrend_metrics(bars, turning_point')
  /\ base_report' = generate_trend_report(intervals', events')
  /\ \E t \in now..MaxClock :
       /\ report' = complete_report(base_report', uptrend_analysis', downtrend_analysis',
                                    hma_period, slope_threshold, Len(bars), t)
       /\ now' = t

\* the analysis of a processed series
RunCompleteAnalysis ==
  /\ pc = "processed"
  /\ run_complete_analysis
  /\ pc' = "analysed"
  /\ UNCHANGED <<bars, hma_period, slope_threshold, HMA, prev_report,
                 ingest_vars, driver_vars,
                 manager_vars, klines_vars, paging_vars>>

\* a second analysis of the same series with the same configuration
RunAgain ==
  /\ pc = "analysed"
  /\ run_complete_analysis
  /\ prev_report' = report
  /\ pc' = "reanalysed"
  /\ UNCHANGED <<bars, hma_period, slope_threshold, HMA, ingest_vars, driver_vars,
                 manager_vars, klines_vars, paging_vars>>

\* a validated flat series and a period up to MaxSmoothPeriod, for the HMA alone
InitHma ==
  /\ bars \in {WithShape(cs, <<0, 0>>) : cs \in SeqsUpTo(1..MaxPrice, MaxFlatLen) \ {<<>>}}
  /\ hma_period \in 1..MaxSmoothPeriod
  /\ slope_threshold = 0
  /\ pc = "raw"
  /\ open_time = RegularIndex(Len(bars))
  /\ Fresh
  /\ ManagerIdle
  /\ CollectorIdle

NextHma == AddHmaToDataframe

\* the HMA column of a series
SpecHma == InitHma /\ [][NextHma]_vars

\* the window_after arguments analyze_events is called with
EventWindows == (1..MaxWindow) \cup {WindowAfter}

\* calculate_hma_slope followed by analyze_events(df_with_slope, window_after = w)
AnalyzeEvents(w) ==
  /\ pc = "processed"
  /\ HMA_slope' = Diff(HMA)
  /\ slope_sign' = SignCol(Diff(HMA))
  /\ turning_point' = calculate_hma_slope(HMA, slope_threshold, HmaDen(hma_period))
  /\ events' = analyze_events(bars, turning_point', WindowBefore, w)
  /\ window_after' = w
  /\ pc' = "events"
  /\ UNCHANGED <<bars, hma_period, slope_threshold, HMA, intervals, warnings,
                 uptrend_analysis, downtrend_analysis, base_report, report,
                 prev_report, now, ingest_vars, exception,
                 manager_vars, klines_vars, paging_vars>>

NextEvents ==
  \/ AddHmaToDataframe
  \/ \E w \in EventWindows : AnalyzeEvents(w)

\* the event analysis of a processed series
SpecEvents == Init /\ [][NextEvents]_vars

\* print_summary reads report['summary'] first: a KeyError on a report without it
print_summary(r) == IF "summary" \in DOMAIN r THEN "none" ELSE "KeyError"

\* the driver's summary step on the report of the run
PrintSummary ==
  /\ pc = "analysed"
  /\ exception' = print_summary(report)
  /\ pc' = "summarised"
  /\ UNCHANGED <<bars, hma_period, slope_threshold, HMA, HMA_slope, slope_sign,
                 turning_point, events, intervals, warnings, uptrend_analysis,
                 downtrend_analysis, base_report, report, prev_report, now,
                 ingest_vars, window_after,
                 manager_vars, klines_vars, paging_vars>>

\* ------------------------------------ ProjectManager.process_single_interval
\* the shapes of the bars of a collected frame: Shapes and a bar with high < low
RawShapes == Shapes \cup {<<0, 1>>}
\* the frames _convert_to_dataframe returns, the empty one and closes <= 0 included
RawSeries == {WithShape(cs, sh) : cs \in SeqsUpTo(0..MaxPrice, MaxLen), sh \in RawShapes}
\* the open_time index after sort_index: ascending, with at most one stamp repeated
SortedIndex(n) ==
  {RegularIndex(n)} \cup {[i \in 1..n |-> IF i >= k THEN i - 1 ELSE i] : k \in 2..n}

\* a frame handed over by collect_historical_data
Collected ==
  /\ bars \in RawSeries
  /\ hma_period \in 1..MaxPeriod
  /\ slope_threshold = 0
  /\ pc = "collected"
  /\ Fresh
  /\ ManagerIdle
  /\ CollectorIdle

InitIngest ==
  /\ Collected
  /\ \E idx \in SortedIndex(Len(bars)) : open_time = idx

\* the call of process_single_interval that raises, if any, besides its two
\* explicit raises
Faults == {"none", "collect", "save_raw", "compute", "save_processed"}

\* mutant: a failure of the last save is not reported
process_single_interval_save_unchecked(frame, fault) ==
  IF fault = "collect"
  THEN [success |-> FALSE, error |-> "collect raised", files_created |-> <<>>]
  ELSE IF frame = <<>>
  THEN [success |-> FALSE, error |-> "no data collected", files_created |-> <<>>]
  ELSE IF fault = "save_raw"
  THEN [success |-> FALSE, error |-> "save_raw raised", files_created |-> <<>>]
  ELSE IF ~validate_data(frame)
  THEN [success |-> FALSE, error |-> "data validation failed", files_created |-> <<"raw">>]
  ELSE IF fault = "compute"
  THEN [success |-> FALSE, error |-> "compute raised", files_created |-> <<"raw">>]
  ELSE IF fault = "save_processed"
  THEN [success |-> TRUE, error |-> "None", files_created |-> <<"raw">>]
  ELSE [success |-> TRUE, error |-> "None", files_created |-> <<"raw", "processed">>]

\* the result of process_single_interval on the frame the collector returns:
\* the try block runs up to its first raise, the except clause records str(e)
process_single_interval(frame, fault) ==
  IF fault = "collect"
  THEN [success |-> FALSE, error |-> "collect raised", files_created |-> <<>>]
  ELSE IF frame = <<>>
  THEN [success |-> FALSE, error |-> "no data collected", files_created |-> <<>>]
  ELSE IF fault = "save_raw"
  THEN [success |-> FALSE, error |-> "save_raw raised", files_created |-> <<>>]
  ELSE IF ~validate_data(frame)
  THEN [success |-> FALSE, error |-> "data validation failed", files_created |-> <<"raw">>]
  ELSE IF fault = "compute"
  THEN [success |-> FALSE, error |-> "compute raised", files_created |-> <<"raw">>]
  ELSE IF fault = "save_processed"
  THEN [success |-> FALSE, error |-> "save_processed raised", files_created |-> <<"raw">>]
  ELSE [success |-> TRUE, error |-> "None", files_created |-> <<"raw", "processed">>]

\* add_hma_to_dataframe was reached and returned
Computed(frame, fault) ==
  /\ fault \in {"none", "save_processed"}
  /\ validate_data(frame)

\* collect, save the raw frame, validate, add the HMA column, save the result;
\* an exception ends the handler with result['error'] set
ProcessSingleInterval ==
  /\ pc = "collected"
  /\ \E fault \in Faults :
       LET r == process_single_interval(bars, fault)
       IN /\ result' = [success |-> r.success, error |-> r.error]
          /\ files_created' = files_created \o r.files_created
          /\ HMA' = IF Computed(bars, fault)
                    THEN calculate_hma(CloseCells(bars), hma_period) ELSE HMA
          /\ warnings' = IF Computed(bars, fault) /\ Len(bars) < hma_period
                         THEN warnings \cup {"data_shorter_than_period"} ELSE warnings
  /\ pc' = "ingested"
  /\ UNCHANGED <<bars, hma_period, slope_threshold, HMA_slope, slope_sign,
                 turning_point, events, intervals, uptrend_analysis,
                 downtrend_analysis, base_report, report, prev_report, now,
                 open_time, driver_vars,
                 manager_vars, klines_vars, paging_vars>>

NextIngest == ProcessSingleInterval

\* ingestion of a collected frame
SpecIngest == InitIngest /\ [][NextIngest]_vars

\* ------------------------------------------------------- run_full_analysis
\* the interval names a configuration may list, in the order it lists them
AllIntervals == <<"4h", "1h", "1d", "1w", "15m">>
\* the frames the collector hands to one task: none, or one bar of any shape
TaskFrames == {<<>>} \cup {<<Bar(c, sh)>> : c \in 0..MaxPrice, sh \in RawShapes}

IsSuccess(r) == r.success
IsFailure(r) == ~r.success
\* mutant: every task counts as successful
successful_tasks_all(results) == results
\* [r for r in results if r['success']]
successful_tasks(results) == SelectSeq(results, IsSuccess)
\* [r for r in results if not r['success']]
failed_tasks(results) == SelectSeq(results, IsFailure)

RECURSIVE all_files(_)
\* all_files.extend(r['files_created']) for each task of the list
all_files(tasks) ==
  IF tasks = <<>> THEN <<>> ELSE tasks[1].files_created \o all_files(Tail(tasks))

_generate_summary(results) ==
  [total_tasks |-> Len(results),
   successful_tasks |-> Len(successful_tasks(results)),
   failed_tasks |-> Len(failed_tasks(results)),
   files_created |-> Len(all_files(successful_tasks(results))),
   file_list |-> all_files(successful_tasks(results)),
   success_rate |-> IF results # <<>>
                    THEN Frac(100 * Len(successful_tasks(results)), Len(results))
                    ELSE Zero]

\* the files of one task, named after its interval
FilesOf(interval, files) == [k \in 1..Len(files) |-> <<interval, files[k]>>]

InitFull ==
  /\ bars = <<>>
  /\ hma_period = 1
  /\ slope_threshold = 0
  /\ pc = "full"
  /\ open_time = <<>>
  /\ Fresh
  /\ CollectorIdle
  /\ INTERVALS \in {SubSeq(AllIntervals, 1, n) : n \in 0..MaxIntervals}
  /\ analysis_result = [results |-> <<>>, summary |-> <<>>, success |-> FALSE]

\* one turn of the loop over INTERVALS: the task's result is appended whether
\* it succeeded or not
ProcessNextInterval ==
  /\ pc = "full"
  /\ Len(analysis_result.results) < Len(INTERVALS)
  /\ \E frame \in TaskFrames, fault \in Faults :
       LET interval == INTERVALS[Len(analysis_result.results) + 1]
           r == process_single_interval(frame, fault)
           task == [interval |-> interval,
                    success |-> r.success,
                    error |-> r.error,
                    files_created |-> FilesOf(interval, r.files_created)]
       IN analysis_result' =
            [analysis_result EXCEPT !.results = Append(@, task)]
  /\ UNCHANGED <<bars, hma_period, slope_threshold, pc, HMA, HMA_slope, slope_sign,
                 turning_point, events, intervals, warnings, uptrend_analysis,
                 downtrend_analysis, base_report, report, prev_report, now,
                 ingest_vars, driver_vars, INTERVALS, klines_vars, paging_vars>>

\* after the loop: the summary and the success flag
GenerateSummary ==
  /\ pc = "full"
  /\ Len(analysis_result.results) = Len(INTERVALS)
  /\ analysis_result' =
       [analysis_result EXCEPT !.summary = _generate_summary(analysis_result.results),
                               !.success = TRUE]
  /\ pc' = "full_done"
  /\ UNCHANGED <<bars, hma_period, slope_threshold, HMA, HMA_slope, slope_sign,
                 turning_point, events, intervals, warnings, uptrend_analysis,
                 downtrend_analysis, base_report, report, prev_report, now,
                 ingest_vars, driver_vars, INTERVALS, klines_vars, paging_vars>>

NextFull ==
  \/ ProcessNextInterval
  \/ GenerateSummary

\* run_full_analysis over the configured intervals
SpecFull == InitFull /\ [][NextFull]_vars

\* --------------------------------------------------------- get_klines_data
\* config MAX_RETRIES
MAX_RETRIES == 3
\* the endpoints in the order of the list urls
urls == <<"primary", "alternate 1", "alternate 2">>
\* what one request ends with: a RequestException, an empty list, a list of bars
Responses ==
  {[ok |-> FALSE, body |-> <<>>],
   [ok |-> TRUE, body |-> <<>>],
   [ok |-> TRUE, body |-> <<"kline">>]}

\* mutant: a failed request gives up the endpoint at once
AfterError_next_endpoint(u, a) == [url |-> u + 1, attempt |-> 0]
\* except RequestException: sleep and retry while attempt < MAX_RETRIES - 1,
\* else break to the next url
AfterError(u, a) ==
  IF a < MAX_RETRIES - 1
  THEN [url |-> u, attempt |-> a + 1]
  ELSE [url |-> u + 1, attempt |-> 0]
\* if not data: continue, the next attempt of range(MAX_RETRIES) or the next url
AfterEmpty(u, a) ==
  IF a + 1 < MAX_RETRIES
  THEN [url |-> u, attempt |-> a + 1]
  ELSE [url |-> u + 1, attempt |-> 0]

InitKlines ==
  /\ bars = <<>>
  /\ hma_period = 1
  /\ slope_threshold = 0
  /\ pc = "requesting"
  /\ open_time = <<>>
  /\ Fresh
  /\ ManagerIdle
  /\ CollectorIdle

\* one session.get of get_klines_data and what the loops do with its outcome
GetKlinesRequest ==
  /\ pc = "requesting"
  /\ \E response \in Responses :
       /\ requests' = Append(requests, [url |-> urls[url], attempt |-> attempt,
                                        response |-> response])
       /\ IF response.ok /\ response.body # <<>>
          THEN /\ data' = response.body
               /\ pc' = "klines_returned"
               /\ UNCHANGED <<url, attempt>>
          ELSE LET next == IF response.ok THEN AfterEmpty(url, attempt)
                                          ELSE AfterError(url, attempt)
               IN /\ url' = next.url
                  /\ attempt' = next.attempt
                  /\ data' = <<>>
                  /\ pc' = IF next.url > Len(urls) THEN "klines_returned" ELSE pc
  /\ UNCHANGED <<bars, hma_period, slope_threshold, HMA, HMA_slope, slope_sign,
                 turning_point, events, intervals, warnings, uptrend_analysis,
                 downtrend_analysis, base_report, report, prev_report, now,
                 ingest_vars, driver_vars, manager_vars, paging_vars>>

NextKlines == GetKlinesRequest

\* get_klines_data; every request ends (timeout = 30) and every sleep is finite
SpecKlines == InitKlines /\ [][NextKlines]_vars /\ WF_vars(NextKlines)

\* -------------------------------------------------- collect_historical_data
\* most requests of one collection; the loop makes fewer whenever every batch
\* ends at or after the start of its request
MaxRequests == MaxEndTime
\* a bar is its close time (kline[6]); its open time orders the same way
CloseTimes == 0..MaxEndTime
\* what get_klines_data returns: nothing, one bar, or two adjacent bars in
\* either order
Batches ==
  {<<>>} \cup {<<c>> : c \in CloseTimes}
         \cup {<<c, c + 1>> : c \in 0..(MaxEndTime - 1)}
         \cup {<<c + 1, c>> : c \in 0..(MaxEndTime - 1)}

\* mutant: the next request starts at the close time of the last bar
next_start_at_close(batch_data) == batch_data[Len(batch_data)]
\* current_start = batch_data[-1][6] + 1
next_start(batch_data) == batch_data[Len(batch_data)] + 1

\* the frame of the gathered bars after set_index and sort_index: every bar is
\* kept, in ascending order (row i holds the least stamp that at least i bars
\* do not exceed); no bar gives the empty frame
_convert_to_dataframe(klines_data) ==
  [i \in 1..Len(klines_data) |->
     CHOOSE c \in {klines_data[j] : j \in 1..Len(klines_data)} :
       /\ Cardinality({j \in 1..Len(klines_data) : klines_data[j] <= c}) >= i
       /\ Cardinality({j \in 1..Len(klines_data) : klines_data[j] < c}) < i]

InitCollect ==
  /\ bars = <<>>
  /\ hma_period = 1
  /\ slope_threshold = 0
  /\ pc = "paging"
  /\ open_time = <<>>
  /\ Fresh
  /\ ManagerIdle
  /\ url = 1 /\ attempt = 0 /\ requests = <<>> /\ data = <<>>
  /\ current_start = 0
  /\ end_time \in 0..MaxEndTime
  /\ all_data = <<>>
  /\ batches = <<>>
  /\ df = <<>>

\* one turn of the while loop: a request for the next batch; an empty batch
\* breaks out of the loop and the gathered bars are converted and returned
CollectBatch ==
  /\ pc = "paging"
  /\ current_start < end_time
  /\ Len(batches) < MaxRequests
  /\ \E batch_data \in Batches :
       /\ batches' = Append(batches,
                            [startTime |-> current_start,
                             endTime |-> Min2(current_start + BatchSpan, end_time),
                             batch_data |-> batch_data])
       /\ IF batch_data = <<>>
          THEN /\ df' = _convert_to_dataframe(all_data)
               /\ pc' = "paged"
               /\ UNCHANGED <<all_data, current_start>>
          ELSE /\ all_data' = all_data \o batch_data
               /\ current_start' = next_start(batch_data)
               /\ UNCHANGED <<df, pc>>
  /\ UNCHANGED <<bars, hma_period, slope_threshold, HMA, HMA_slope, slope_sign,
                 turning_point, events, intervals, warnings, uptrend_analysis,
                 downtrend_analysis, base_report, report, prev_report, now,
                 ingest_vars, driver_vars, manager_vars, klines_vars, end_time>>

\* the loop condition fails: the gathered bars are converted and returned
CollectReturn ==
  /\ pc = "paging"
  /\ ~(current_start < end_time)
  /\ df' = _convert_to_dataframe(all_data)
  /\ pc' = "paged"
  /\ UNCHANGED <<bars, hma_period, slope_threshold, HMA, HMA_slope, slope_sign,
                 turning_point, events, intervals, warnings, uptrend_analysis,
                 downtrend_analysis, base_report, report, prev_report, now,
                 ingest_vars, driver_vars, manager_vars, klines_vars,
                 current_start, end_time, all_data, batches>>

NextCollect ==
  \/ CollectBatch
  \/ CollectReturn

\* collect_historical_data; get_klines_data returns (it makes at most
\* Len(urls) * MAX_RETRIES requests) and every sleep is finite
SpecCollect == InitCollect /\ [][NextCollect]_vars /\ WF_vars(NextCollect)

Next ==
  \/ AddHmaToDataframe
  \/ RunCompleteAnalysis

Spec == Init /\ [][Next]_vars

NextTwice ==
  \/ Next
  \/ RunAgain

\* the pipeline followed by a second run on the same input
SpecTwice == Init /\ [][NextTwice]_vars

NextDriver ==
  \/ Next
  \/ PrintSummary

\* the analysis followed by the driver's summary
SpecDriver == Init /\ [][NextDriver]_vars

\* ------------------------------------------------------------- properties
Analysed == pc \in {"analysed", "reanalysed"}
tps == TurningIdx(turning_point, 1)
UpMetrics == report.uptrend_analysis.intervals
DownMetrics == report.downtrend_analysis.intervals

\* C1: with slope_threshold = 0 no two consecutive turning points have the
\* same direction.
C1_Alternation ==
  (Analysed /\ slope_threshold = 0) =>
    \A k \in 1..(Len(tps) - 1) : turning_point[tps[k]] # turning_point[tps[k + 1]]

\* x is the float (a / b - 1) * 100
IsPctOf(x, a, b) ==
  IF b = 0 THEN x.d = 0 /\ Sign(x.n) = Sign(a)
  ELSE x.d > 0 /\ x.n * b = 100 * (a - b) * x.d

\* C2: every up interval reports ideal = (high/start - 1)*100, actual =
\* (end/start - 1)*100, risk = (start/low - 1)*100, and every down interval
\* ideal = (start/low - 1)*100, actual = (start/end - 1)*100, risk =
\* (high/start - 1)*100.
C2_ExcursionRule ==
  Analysed =>
    /\ \A k \in 1..Len(UpMetrics) :
         LET m == UpMetrics[k]
         IN /\ IsPctOf(m.long_ideal_profit, m.high_price, m.start_price)
            /\ IsPctOf(m.long_actual_profit, m.end_price, m.start_price)
            /\ IsPctOf(m.long_risk_loss, m.start_price, m.low_price)
    /\ \A k \in 1..Len(DownMetrics) :
         LET m == DownMetrics[k]
         IN /\ IsPctOf(m.short_ideal_profit, m.start_price, m.low_price)
            /\ IsPctOf(m.short_actual_profit, m.start_price, m.end_price)
            /\ IsPctOf(m.short_risk_loss, m.high_price, m.start_price)

\* an up and a down interval have been measured, with distinct figures
C2_Witness ==
  /\ Analysed
  /\ \E k \in 1..Len(UpMetrics) :
       Positive(UpMetrics[k].long_risk_loss) /\ Negative(UpMetrics[k].long_actual_profit)
  /\ \E k \in 1..Len(DownMetrics) :
       Positive(DownMetrics[k].short_risk_loss) /\ Negative(DownMetrics[k].short_actual_profit)

\* C3: on a validated series every interval has pfe_pct >= 0 and mae_pct >= 0.
C3_SignSanity ==
  (Analysed /\ validate_data(bars)) =>
    \A k \in 1..Len(intervals) :
      NonNegative(intervals[k].pfe_pct) /\ NonNegative(intervals[k].mae_pct)

\* bar p (0-based) lies in the closed range of interval iv
Covers(iv, p) == iv.start_idx <= p /\ p <= iv.end_idx
\* the bars from the first turning point to the last one
Span == (tps[1] - 1)..(tps[Len(tps)] - 1)

\* C4 as stated: the interval ranges cover every bar of the span and no bar
\* lies in the ranges of two different intervals.
C4_NoGapNoOverlap ==
  (Analysed /\ Len(tps) >= 2) =>
    /\ \A p \in Span : \E k \in 1..Len(intervals) : Covers(intervals[k], p)
    /\ \A p \in Span : \A j, k \in 1..Len(intervals) :
         (Covers(intervals[j], p) /\ Covers(intervals[k], p)) => j = k

\* C4 amended: the closed ranges cover exactly the span, and two different
\* intervals share a bar only when they are consecutive and the bar is their
\* common turning point.
C4_Tiling ==
  (Analysed /\ Len(tps) >= 2) =>
    /\ \A p \in Span : \E k \in 1..Len(intervals) : Covers(intervals[k], p)
    /\ \A k \in 1..Len(intervals) :
         intervals[k].start_idx \in Span /\ intervals[k].end_idx \in Span
    /\ \A p \in Span : \A j, k \in 1..Len(intervals) :
         (j < k /\ Covers(intervals[j], p) /\ Covers(intervals[k], p)) =>
           (k = j + 1 /\ p = intervals[j].end_idx /\ p = intervals[k].start_idx)
    /\ \A k \in 1..(Len(intervals) - 1) : intervals[k].end_idx = intervals[k + 1].start_idx

\* several intervals tile a span, one of them longer than one bar
C4_Witness ==
  /\ Analysed
  /\ Len(intervals) >= 2
  /\ \E k \in 1..Len(intervals) : intervals[k].duration >= 2

\* C5: a second run on the same bars and configuration returns the report of
\* the first run, field for field.
C5_Deterministic == (pc = "reanalysed") => report = prev_report

\* C6: n >= 2 turning points give exactly n - 1 intervals, the k-th from
\* turning point k to turning point k + 1, directed by the turning point it
\* starts at, with duration = end_idx - start_idx.
C6_AdjacentPairs ==
  (Analysed /\ Len(tps) >= 2) =>
    /\ Len(intervals) = Len(tps) - 1
    /\ \A k \in 1..(Len(tps) - 1) :
         /\ intervals[k].start_idx = tps[k] - 1
         /\ intervals[k].end_idx = tps[k + 1] - 1
         /\ intervals[k].trend_direction = (IF turning_point[tps[k]] = 1 THEN "up" ELSE "down")
         /\ intervals[k].duration = intervals[k].end_idx - intervals[k].start_idx

\* intervals of both directions, one of them between two down-turns
C6_Witness ==
  /\ Analysed
  /\ Len(tps) >= 3
  /\ \E k \in 1..(Len(tps) - 1) :
       turning_point[tps[k]] = -1 /\ turning_point[tps[k + 1]] = -1
  /\ \E k \in 1..Len(intervals) : intervals[k].trend_direction = "up"

\* C7: fewer than two turning points give no interval and the
\* insufficient-turning-points warning, and the run goes on to its report.
C7_Insufficient ==
  (Analysed /\ Len(tps) < 2) =>
    /\ intervals = <<>>
    /\ "insufficient_turning_points" \in warnings
    /\ report # NoReport

\* a series with exactly one turning point has been analysed
C7_Witness == Analysed /\ Len(tps) = 1 /\ intervals = <<>>

\* C8: risk_reward_ratio is ideal profit / risk loss when risk loss > 0 and
\* +inf otherwise.
C8_RiskReward ==
  Analysed =>
    /\ \A k \in 1..Len(UpMetrics) :
         LET m == UpMetrics[k]
         IN IF Positive(m.long_risk_loss)
            THEN FEq(m.risk_reward_ratio, FDiv(m.long_ideal_profit, m.long_risk_loss))
            ELSE IsPosInf(m.risk_reward_ratio)
    /\ \A k \in 1..Len(DownMetrics) :
         LET m == DownMetrics[k]
         IN IF Positive(m.short_risk_loss)
            THEN FEq(m.risk_reward_ratio, FDiv(m.short_ideal_profit, m.short_risk_loss))
            ELSE IsPosInf(m.risk_reward_ratio)

\* an up interval whose low equals its start price got the +inf ratio, next to
\* an interval with a finite non-zero ratio
C8_Witness ==
  /\ Analysed
  /\ \E k \in 1..Len(UpMetrics) :
       UpMetrics[k].low_price = UpMetrics[k].start_price /\ IsPosInf(UpMetrics[k].risk_reward_ratio)

\* C9: in a group with intervals, avg_risk_reward_ratio is the mean of the
\* finite ratios, a finite number, and 0 when no ratio is finite.
AvgOverFinite(summary) ==
  LET finite == SelectSeq(Field(summary.intervals, "risk_reward_ratio"), Finite)
  IN /\ Finite(summary.avg_risk_reward_ratio)
     /\ IF finite = <<>> THEN FEq(summary.avg_risk_reward_ratio, Zero)
        ELSE FEq(summary.avg_risk_reward_ratio, FMean(finite))
C9_FiniteMean ==
  Analysed =>
    /\ report.uptrend_analysis.total_uptrends > 0 => AvgOverFinite(report.uptrend_analysis)
    /\ report.downtrend_analysis.total_downtrends > 0 => AvgOverFinite(report.downtrend_analysis)

\* a group holds an interval with an infinite ratio and one with a finite ratio
MixedGroup(summary) ==
  /\ \E k \in 1..Len(summary.intervals) : IsPosInf(summary.intervals[k].risk_reward_ratio)
  /\ \E k \in 1..Len(summary.intervals) : Finite(summary.intervals[k].risk_reward_ratio)
C9_Witness ==
  Analysed /\ (MixedGroup(report.uptrend_analysis) \/ MixedGroup(report.downtrend_analysis))

\* C10: an interval with a price <= 0 is left out of the intervals that are
\* aggregated.
C10_InvalidExcluded ==
  Analysed =>
    \A k \in 1..Len(intervals) :
      /\ intervals[k].start_price > 0 /\ intervals[k].end_price > 0
      /\ intervals[k].high_price > 0 /\ intervals[k].low_price > 0

\* the stamps of the index grow from each bar to the next
StrictlyIncreasing(idx) == \A i \in 1..(Len(idx) - 1) : idx[i] < idx[i + 1]
\* one of the four defects of a price series
Defective(b, idx) ==
  \/ b = <<>>
  \/ \E i \in 1..Len(b) : b[i].high < b[i].low
  \/ \E i \in 1..Len(b) : b[i].close <= 0
  \/ ~StrictlyIncreasing(idx)

\* a collection, save or computation call raised during ingestion
Raised ==
  result.error \in {"collect raised", "save_raw raised", "compute raised",
                    "save_processed raised"}

\* C11: ingestion rejects a frame that is empty, has a bar with high < low, has
\* a bar with close <= 0 or has an index that is not strictly increasing, and
\* accepts every other frame.
C11_Validation ==
  (pc = "ingested" /\ ~Raised) => (result.success <=> ~Defective(bars, open_time))

\* C19: when validation fails, process_single_interval has saved no file and
\* computed no indicator, and its result reports the failure.
C19_RejectedAtIngestion ==
  (pc = "ingested" /\ ~validate_data(bars)) =>
    /\ files_created = <<>>
    /\ HMA = <<>>
    /\ ~result.success /\ result.error # "None"

\* the events of a series have been analysed
EventsDone == pc = "events"
\* entry j of the event's price_changes has the sign its event type predicts
Hit(e, j) ==
  IF e.event_type = "up_turn" THEN Positive(e.price_changes[j]) ELSE Negative(e.price_changes[j])
Hits(e) == Cardinality({j \in 1..Len(e.price_changes) : Hit(e, j)})

\* C12: the event of the turning point at index t of a series of L bars has
\* min(window_after, L - 1 - t) price changes, the j-th being the percentage
\* change of close[t + j] against close[t]; at the last bar the list is empty
\* and consistency is 0.
C12_PriceChanges ==
  EventsDone =>
    /\ Len(events) = Len(tps)
    /\ \A k \in 1..Len(events) :
         LET t == tps[k] - 1
             L == Len(bars)
             e == events[k]
         IN /\ Len(e.price_changes) = Min2(window_after, L - 1 - t)
            /\ \A j \in 1..Len(e.price_changes) :
                 /\ t + j < L
                 /\ IsPctOf(e.price_changes[j], bars[t + j + 1].close, bars[t + 1].close)
            /\ t = L - 1 => (e.price_changes = <<>> /\ FEq(e.consistency, Zero))

\* one event is cut short by the end of the series, at its last bar, and another
\* one has its full window with bars to spare
C12_Witness ==
  /\ EventsDone
  /\ \E k \in 1..Len(events) : tps[k] = Len(bars) /\ events[k].price_changes = <<>>
  /\ \E k \in 1..Len(events) :
       Len(events[k].price_changes) = window_after /\ window_after < Len(bars) - tps[k]

\* C13: consistency is the share of the price changes with the predicted sign,
\* between 0 and 1, and 0 for an event without price changes.
C13_Consistency ==
  EventsDone =>
    \A k \in 1..Len(events) :
      LET e == events[k]
          n == Len(e.price_changes)
      IN /\ Finite(e.consistency)
         /\ IF n = 0 THEN e.consistency.n = 0
            ELSE e.consistency.n * n = Hits(e) * e.consistency.d
         /\ FLe(Zero, e.consistency) /\ FLe(e.consistency, Frac(1, 1))

\* an up-turn and a down-turn, each with some but not all changes as predicted
C13_Witness ==
  /\ EventsDone
  /\ \E k \in 1..Len(events) :
       events[k].event_type = "up_turn" /\ 0 < Hits(events[k])
         /\ Hits(events[k]) < Len(events[k].price_changes)
  /\ \E k \in 1..Len(events) :
       events[k].event_type = "down_turn" /\ 0 < Hits(events[k])

\* the direction groups generate_trend_report splits its arguments into
UpGroup == SelectSeq(intervals, IsUp)
DownGroup == SelectSeq(intervals, IsDown)
UpTurns == SelectSeq(events, IsUpTurn)
DownTurns == SelectSeq(events, IsDownTurn)
\* every statistic of an interval group, or of an event group, is 0
ZeroTrendStats(g) ==
  /\ g.count = 0
  /\ \A f \in DOMAIN g \ {"count"} : FEq(g[f], Zero)
ZeroEventStats(g) ==
  /\ g.count = 0 /\ g.avg_volatility = "0"
  /\ \A f \in {"avg_consistency", "avg_price_change_1h", "avg_price_change_5h"} : FEq(g[f], Zero)

\* C14: when a direction group of intervals or of events is empty, the report
\* is not an error result and the statistics of the empty group are all 0.
C14_EmptyGroupTolerated ==
  (Analysed /\ (UpGroup = <<>> \/ DownGroup = <<>> \/ UpTurns = <<>> \/ DownTurns = <<>>)) =>
    /\ "error" \notin DOMAIN report
    /\ UpGroup = <<>> => ZeroTrendStats(report.interval_analysis.up_trends)
    /\ DownGroup = <<>> => ZeroTrendStats(report.interval_analysis.down_trends)
    /\ UpTurns = <<>> => ZeroEventStats(report.event_analysis.up_turns)
    /\ DownTurns = <<>> => ZeroEventStats(report.event_analysis.down_turns)

\* C15: every report has profit_loss_ratio = mean of the positive up-interval
\* changes / |mean of the negative down-interval changes|, +inf when the
\* denominator is zero, and never nan.
C15_ProfitLossRatio ==
  Analysed =>
    /\ "interval_analysis" \in DOMAIN report
    /\ "profit_loss_ratio" \in DOMAIN report.interval_analysis
    /\ LET r == report.interval_analysis.profit_loss_ratio
           gains == Field(SelectSeq(UpGroup, Gained), "price_change_pct")
           losses == Field(SelectSeq(DownGroup, Lost), "price_change_pct")
           den == FAbs(FMean(losses))
       IN /\ ~IsNanF(r)
          /\ IF FEq(den, Zero) THEN IsPosInf(r) ELSE FEq(r, FDiv(FMean(gains), den))

\* C16: the HMA column is as long as the price column, and all-NaN when the
\* series is shorter than the period.
C16_HmaLength ==
  (pc # "raw") =>
    /\ Len(HMA) = Len(bars)
    /\ Len(bars) < hma_period => \A i \in 1..Len(HMA) : IsNaN(HMA[i])

\* the HMA of a series shorter than the period has been computed
C16_Witness ==
  /\ pc # "raw"
  /\ 0 < Len(bars) /\ Len(bars) < hma_period
  /\ Len(HMA) = Len(bars) /\ IsNaN(HMA[1])

\* the walk-through series has been analysed
ScenarioRun ==
  /\ Analysed /\ bars = ScenarioBars
  /\ hma_period = Scenario.hma_period /\ slope_threshold = Scenario.slope_threshold
\* the 0-based indices of the turning points of direction dir
TurnsOf(dir) == {i - 1 : i \in {j \in 1..Len(turning_point) : turning_point[j] = dir}}

\* C17: on the walk-through series the HMA is defined from index 2 on, there is
\* exactly one down-turn, within one bar of the peak at index 3, and exactly one
\* up-turn, within one bar of the trough at index 7, and the only interval is
\* the down interval between them, with high 106 and low 98.
C17_Scenario ==
  ScenarioRun =>
    /\ \A i \in 1..Len(HMA) : IsNaN(HMA[i]) <=> (i - 1 < 2)
    /\ Cardinality(TurnsOf(-1)) = 1 /\ TurnsOf(-1) \subseteq 2..4
    /\ Cardinality(TurnsOf(1)) = 1 /\ TurnsOf(1) \subseteq 6..8
    /\ Len(intervals) = 1
    /\ intervals[1].trend_direction = "down"
    /\ intervals[1].high_price = 106
    /\ intervals[1].low_price = 98

\* C17 amended: on the walk-through series the HMA is defined from index 2 on,
\* the only down-turn is at index 4, the bar after the peak, the only up-turn at
\* index 8, the bar after the trough, and the only interval is the down interval
\* from 4 to 8, with high 105 and low 98: the peak bar lies before the interval.
C17_ScenarioLagged ==
  ScenarioRun =>
    /\ \A i \in 1..Len(HMA) : IsNaN(HMA[i]) <=> (i - 1 < 2)
    /\ TurnsOf(-1) = {4}
    /\ TurnsOf(1) = {8}
    /\ Len(intervals) = 1
    /\ intervals[1].trend_direction = "down"
    /\ intervals[1].start_idx = 4 /\ intervals[1].end_idx = 8
    /\ intervals[1].high_price = 105
    /\ intervals[1].low_price = 98

\* the walk-through series has been analysed and has given its interval
C17_Witness == ScenarioRun /\ Len(intervals) = 1 /\ intervals[1].start_price = 105

\* the HMA column has no defined cell
NoDefinedHma == \A i \in 1..Len(HMA) : IsNaN(HMA[i])

\* C18: when the HMA has no defined value or there are fewer than two turning
\* points, the run and the summary step end without an exception and the report
\* is a normal one, with no interval and zero counts, not an error result.
C18_InsufficientData ==
  (pc = "summarised" /\ (NoDefinedHma \/ Len(tps) < 2)) =>
    /\ exception = "none"
    /\ "error" \notin DOMAIN report
    /\ intervals = <<>>
    /\ report.summary.total_intervals = 0
    /\ report.summary.up_intervals = 0 /\ report.summary.down_intervals = 0

\* C20: high_price is the largest high and low_price the smallest low of the
\* bars from the start turning point to the end turning point, both included,
\* and start_price and end_price are the closes of these two bars.
C20_IntervalPrices ==
  Analysed =>
    \A k \in 1..Len(intervals) :
      LET iv == intervals[k]
          rows == tps[k]..tps[k + 1]
      IN /\ \E i \in rows : bars[i].high = iv.high_price
         /\ \A i \in rows : bars[i].high <= iv.high_price
         /\ \E i \in rows : bars[i].low = iv.low_price
         /\ \A i \in rows : bars[i].low >= iv.low_price
         /\ iv.start_price = bars[tps[k]].close
         /\ iv.end_price = bars[tps[k + 1]].close

\* an interval whose low is reached at its end bar only and an interval whose
\* high is reached at its end bar only
C20_Witness ==
  /\ Analysed
  /\ \E k \in 1..Len(intervals) :
       \A i \in tps[k]..(tps[k + 1] - 1) : bars[i].low > intervals[k].low_price
  /\ \E k \in 1..Len(intervals) :
       \A i \in tps[k]..(tps[k + 1] - 1) : bars[i].high < intervals[k].high_price

\* the sign of the slope in row i is defined and equals v
SignIs(i, v) == i >= 1 /\ ~IsNaN(slope_sign[i]) /\ Val(slope_sign[i]) = v
\* the turning point the sign column gives row i before the filter
UnfilteredTurn(i) ==
  IF SignIs(i - 1, -1) /\ SignIs(i, 1) THEN 1
  ELSE IF SignIs(i - 1, 1) /\ SignIs(i, -1) THEN -1
  ELSE 0

\* C21: without filtering, row i is an up-turn exactly when the sign goes from
\* -1 to +1 between rows i-1 and i, a down-turn exactly when it goes from +1
\* to -1, and no turning point otherwise; a sign 0 or an undefined slope next
\* to the row never gives one.  With filtering no other row is ever marked.
C21_ExactFlip ==
  Analysed =>
    \A i \in 1..Len(turning_point) :
      /\ turning_point[i] # 0 => turning_point[i] = UnfilteredTurn(i)
      /\ slope_threshold = 0 => turning_point[i] = UnfilteredTurn(i)

\* the signs -1, 0, +1 follow each other and none of the three rows is marked
C21_Witness ==
  /\ Analysed /\ slope_threshold = 0
  /\ \E i \in 3..Len(turning_point) :
       /\ SignIs(i - 2, -1) /\ SignIs(i - 1, 0) /\ SignIs(i, 1)
       /\ turning_point[i - 1] = 0 /\ turning_point[i] = 0
  /\ \E i \in 1..Len(turning_point) : turning_point[i] # 0

\* the slope of row i reaches the threshold
Steep(i) ==
  ~IsNaN(HMA_slope[i]) /\ Abs(Val(HMA_slope[i])) >= slope_threshold * HmaDen(hma_period)

\* C22: with slope_threshold > 0 the retained turning points are the unfiltered
\* ones whose |slope| >= threshold, at the same rows with the same direction,
\* and the intervals run between consecutive retained turning points, of the
\* same direction or not.
C22_PureFilter ==
  (Analysed /\ slope_threshold > 0) =>
    /\ \A i \in 1..Len(turning_point) :
         turning_point[i] = (IF UnfilteredTurn(i) # 0 /\ Steep(i) THEN UnfilteredTurn(i) ELSE 0)
    /\ Len(tps) >= 2 =>
         \A k \in 1..(Len(tps) - 1) :
           intervals[k].start_idx = tps[k] - 1 /\ intervals[k].end_idx = tps[k + 1] - 1

\* the filter has dropped a turning point between two retained turning points
\* of the same direction, and an interval runs between these two
C22_Witness ==
  /\ Analysed /\ slope_threshold > 0
  /\ \E k \in 1..(Len(tps) - 1) :
       /\ turning_point[tps[k]] = turning_point[tps[k + 1]]
       /\ \E i \in (tps[k] + 1)..(tps[k + 1] - 1) : UnfilteredTurn(i) # 0 /\ ~Steep(i)
       /\ intervals[k].start_idx = tps[k] - 1 /\ intervals[k].end_idx = tps[k + 1] - 1

\* the HMA column has been added
Processed == pc = "processed"
\* round(sqrt(period)), the nearest integer
RoundSqrt(period) ==
  CHOOSE r \in 0..period :
    (2 * r - 1) * (2 * r - 1) <= 4 * period /\ 4 * period < (2 * r + 1) * (2 * r + 1)

\* C23: the HMA is the weighted average, over max(1, round(sqrt(period)))
\* rows, of 2 * WMA(close, max(1, period // 2)) - WMA(close, period).
C23_Windows ==
  (Processed /\ Len(bars) >= hma_period) =>
    LET w == Max2(1, RoundSqrt(hma_period))
        expected == calculate_wma(raw_hma(CloseCells(bars), hma_period), w)
    IN /\ half_period(hma_period) = Max2(1, hma_period \div 2)
       /\ \A i \in 1..Len(HMA) :
            /\ IsNaN(HMA[i]) <=> IsNaN(expected[i])
            /\ ~IsNaN(HMA[i]) =>
                 Val(HMA[i]) * WmaDen(w) = Val(expected[i]) * WmaDen(sqrt_period(hma_period))

\* C24 as stated: the HMA of a series of at least period bars is undefined
\* below index period - 1 and defined from index period - 1 on.
C24_DefinedFromPeriod ==
  (Processed /\ Len(bars) >= hma_period) =>
    \A i \in 1..Len(HMA) : IsNaN(HMA[i]) <=> (i - 1 < hma_period - 1)

\* C24 amended: the undefined cells are a leading prefix, every index below
\* period - 1 is undefined, and the first defined index is
\* (period - 1) + (w - 1), w being the window of the final weighted average.
C24_WarmUp ==
  (Processed /\ Len(bars) >= hma_period) =>
    /\ \A i \in 1..Len(HMA) :
         IsNaN(HMA[i]) <=> (i - 1 < (hma_period - 1) + (sqrt_period(hma_period) - 1))
    /\ \A i \in 1..Len(HMA) : (i - 1 < hma_period - 1) => IsNaN(HMA[i])
    /\ \A i \in 1..(Len(HMA) - 1) : ~IsNaN(HMA[i]) => ~IsNaN(HMA[i + 1])

\* a final window of two rows: index period - 1 is still undefined and the rows
\* after it are defined
C24_Witness ==
  /\ Processed /\ sqrt_period(hma_period) = 2 /\ Len(bars) > hma_period + 1
  /\ IsNaN(HMA[hma_period]) /\ ~IsNaN(HMA[hma_period + 1]) /\ ~IsNaN(HMA[Len(HMA)])

\* rows marked as turning points
MarkedRows == {i \in 1..Len(turning_point) : turning_point[i] # 0}

SameInterval(i, m) ==
  /\ i.start_idx = m.start_time /\ i.end_idx = m.end_time
  /\ i.start_price = m.start_price /\ i.end_price = m.end_price
  /\ i.high_price = m.high_price /\ i.low_price = m.low_price
  /\ i.duration = m.duration

\* C26: analyze_trend_intervals and the two metric computations agree: as many
\* uptrends as 'up' intervals and downtrends as 'down' intervals, and for each
\* corresponding interval ideal profit = pfe_pct, risk loss = mae_pct and the
\* same start, end, high and low prices and duration.
C26_MetricsAgree ==
  Analysed =>
    /\ uptrend_analysis.total_uptrends = Len(UpGroup)
    /\ downtrend_analysis.total_downtrends = Len(DownGroup)
    /\ Len(UpMetrics) = Len(UpGroup)
    /\ Len(DownMetrics) = Len(DownGroup)
    /\ \A k \in 1..Len(UpGroup) :
         /\ SameInterval(UpGroup[k], UpMetrics[k])
         /\ FEq(UpMetrics[k].long_ideal_profit, UpGroup[k].pfe_pct)
         /\ FEq(UpMetrics[k].long_risk_loss, UpGroup[k].mae_pct)
    /\ \A k \in 1..Len(DownGroup) :
         /\ SameInterval(DownGroup[k], DownMetrics[k])
         /\ FEq(DownMetrics[k].short_ideal_profit, DownGroup[k].pfe_pct)
         /\ FEq(DownMetrics[k].short_risk_loss, DownGroup[k].mae_pct)

\* an up and a down interval, each with a profit that differs from its risk
C26_Witness ==
  /\ Analysed /\ UpGroup # <<>> /\ DownGroup # <<>>
  /\ \E k \in 1..Len(UpGroup) : ~FEq(UpGroup[k].pfe_pct, UpGroup[k].mae_pct)
  /\ \E k \in 1..Len(DownGroup) : ~FEq(DownGroup[k].pfe_pct, DownGroup[k].mae_pct)

\* process_single_interval has returned
Ingested == pc = "ingested"

\* C27: process_single_interval always returns its result record: success only
\* with the raw and then the processed file saved and no error; on a failure
\* (no data, validation failed, a save or a computation raised) success is
\* false and error holds the message.
C27_ResultRecord ==
  Ingested =>
    /\ result.success \in BOOLEAN
    /\ result.success =>
         /\ files_created = <<"raw", "processed">>
         /\ result.error = "None"
         /\ validate_data(bars)
    /\ ~result.success =>
         /\ result.error # "None"
         /\ files_created \in {<<>>, <<"raw">>}
    /\ (bars = <<>> \/ ~validate_data(bars)) => ~result.success
    /\ HMA # <<>> => files_created # <<>>

\* the processed frame was computed and its save raised
C27_Witness ==
  /\ Ingested /\ ~result.success /\ result.error = "save_processed raised"
  /\ files_created = <<"raw">> /\ HMA # <<>>

\* run_full_analysis has returned
FullDone == pc = "full_done"
Elems(q) == {q[k] : k \in 1..Len(q)}

\* C28: every configured interval is processed in order, whatever the earlier
\* results: one entry per interval, successful_tasks + failed_tasks =
\* total_tasks = number of configured intervals, and file_list holds only files
\* created by successful tasks.
C28_EveryInterval ==
  /\ pc \in {"full", "full_done"} =>
       /\ Len(analysis_result.results) <= Len(INTERVALS)
       /\ \A k \in 1..Len(analysis_result.results) :
            analysis_result.results[k].interval = INTERVALS[k]
  /\ FullDone =>
       LET results == analysis_result.results
           summary == analysis_result.summary
       IN /\ Len(results) = Len(INTERVALS)
          /\ summary.total_tasks = Len(INTERVALS)
          /\ summary.successful_tasks + summary.failed_tasks = summary.total_tasks
          /\ summary.successful_tasks
               = Cardinality({k \in 1..Len(results) : results[k].success})
          /\ \A f \in Elems(summary.file_list) :
               \E k \in 1..Len(results) :
                 results[k].success /\ f \in Elems(results[k].files_created)
          /\ \A k \in 1..Len(results) :
               ~results[k].success =>
                 Elems(results[k].files_created) \cap Elems(summary.file_list) = {}

\* the first interval failed after saving its raw file and the next succeeded
C28_Witness ==
  /\ FullDone /\ Len(INTERVALS) >= 2
  /\ ~analysis_result.results[1].success
  /\ analysis_result.results[1].files_created # <<>>
  /\ analysis_result.results[2].success
  /\ analysis_result.summary.failed_tasks >= 1
  /\ analysis_result.summary.file_list # <<>>

\* get_klines_data has returned
KlinesReturned == pc = "klines_returned"
\* request k was answered with a list of bars
Answered(k) == requests[k].response.ok /\ requests[k].response.body # <<>>
\* the requests among the first k that went to the endpoint of request k
SentTo(k) == {j \in 1..k : requests[j].url = requests[k].url}
UrlIndex(name) == CHOOSE u \in 1..Len(urls) : urls[u] = name

C29_Order ==
  pc \in {"requesting", "klines_returned"} =>
    /\ Len(requests) <= Len(urls) * MAX_RETRIES
    /\ \A k \in 1..Len(requests) : Cardinality(SentTo(k)) <= MAX_RETRIES
    /\ requests # <<>> => requests[1].url = urls[1]
    /\ \A k \in 1..(Len(requests) - 1) :
         /\ ~Answered(k)
         /\ \/ requests[k + 1].url = requests[k].url
            \/ /\ UrlIndex(requests[k + 1].url) = UrlIndex(requests[k].url) + 1
               /\ Cardinality(SentTo(k)) = MAX_RETRIES
    /\ KlinesReturned =>
         /\ data # <<>> =>
              Answered(Len(requests)) /\ data = requests[Len(requests)].response.body
         /\ data = <<>> =>
              /\ Len(requests) = Len(urls) * MAX_RETRIES
              /\ \A k \in 1..Len(requests) : ~Answered(k)
    /\ ~KlinesReturned => data = <<>>

\* C29: get_klines_data terminates; it tries the endpoints in the order primary,
\* alternate 1, alternate 2, with at most MAX_RETRIES requests each, returns the
\* first non-empty response and requests nothing after it, leaves an endpoint
\* only after MAX_RETRIES unsuccessful attempts, and returns the empty list
\* only when all endpoints are exhausted.
C29_Terminates == []C29_Order /\ <>KlinesReturned

\* bars returned by the last endpoint after failures and empty answers
C29_Witness ==
  /\ KlinesReturned /\ data # <<>>
  /\ requests[Len(requests)].url = urls[Len(urls)]
  /\ \E k \in 1..Len(requests) : ~requests[k].response.ok
  /\ \E k \in 1..Len(requests) : requests[k].response.ok /\ ~Answered(k)

\* collect_historical_data has returned its frame
Paged == pc = "paged"
\* every non-empty batch so far ends with a bar that closes at or after the
\* start of the request that fetched it
ProvisoHeld ==
  \A k \in 1..Len(batches) :
    batches[k].batch_data # <<>> =>
      batches[k].batch_data[Len(batches[k].batch_data)] >= batches[k].startTime

RECURSIVE Gathered(_)
\* the bars of the first k batches, in the order received
Gathered(k) == IF k = 0 THEN <<>> ELSE Gathered(k - 1) \o batches[k].batch_data
Count(q, x) == Cardinality({i \in 1..Len(q) : q[i] = x})

C30_Progress ==
  pc \in {"paging", "paged"} =>
    /\ \A k \in 1..Len(batches) : batches[k].startTime < end_time
    /\ all_data = Gathered(Len(batches))
    /\ \A k \in 1..(Len(batches) - 1) : batches[k].batch_data # <<>>
    /\ ProvisoHeld =>
         /\ \A k \in 1..(Len(batches) - 1) : batches[k + 1].startTime > batches[k].startTime
         /\ batches # <<>> =>
              /\ Len(batches) <= end_time - batches[1].startTime
              /\ batches[Len(batches)].batch_data # <<>> =>
                   current_start > batches[Len(batches)].startTime
    /\ Paged =>
         /\ \/ current_start >= end_time
            \/ batches # <<>> /\ batches[Len(batches)].batch_data = <<>>
         /\ Len(df) = Len(all_data)
         /\ \A c \in CloseTimes : Count(df, c) = Count(all_data, c)
         /\ \A i \in 1..(Len(df) - 1) : df[i] <= df[i + 1]

\* C30: as long as every non-empty batch ends with a bar closing at or after
\* the start of its request, each request starts strictly later than the one
\* before, so the paging loop terminates; it ends when the next start reaches
\* end_time or at the first empty batch, and then returns the bars gathered so
\* far as its frame.
C30_Paging == []C30_Progress /\ <>(Paged \/ ~ProvisoHeld)

\* two batches were gathered and an empty third one ended the loop before
\* end_time; the frame holds the gathered bars
C30_Witness ==
  /\ Paged /\ ProvisoHeld /\ Len(batches) >= 3
  /\ batches[Len(batches)].batch_data = <<>>
  /\ current_start < end_time
  /\ df # <<>> /\ Len(df) = Len(all_data)

====
